---- MODULE Spec2Model ----
(***************************************************************************)
(* Model of package authmiddleware (src/authmiddleware.go): the two        *)
(* middleware entry points Authenticate and AuthenticateUser, the machine  *)
(* cascade MachineChecks (checkLocal, checkBearerToken, checkWSO2) and the *)
(* group check PassGatekeeper.                                             *)
(*                                                                         *)
(* Go strings that the code inspects (header values, environment values,   *)
(* group identifiers) are sequences of one-character strings, so that      *)
(* strings.Split and strings.EqualFold are computed, not assumed.  A Go    *)
(* error is <<>> for nil and <<text>> for an error with that text.         *)
(***************************************************************************)
EXTENDS Naturals, Sequences, FiniteSets

VARIABLES env, req

vars == <<env, req>>

\* ------------------------------------------------------------------ bounds

\* Longest group list the directory returns for a user.
MaxGroups == 2

\* ----------------------------------------------------------------- strings

SP == <<" ">>
Bearer == <<"B", "e", "a", "r", "e", "r">>
xyz == <<"x", "y", "z">>
abc == <<"a", "b", "c">>
admins == <<"a", "d", "m", "i", "n", "s">>
staff == <<"s", "t", "a", "f", "f">>
alumni == <<"a", "l", "u", "m", "n", "i">>
students == <<"s", "t", "u", "d", "e", "n", "t", "s">>

NoError == <<>>
BadAuthorizationHeader == <<"Bad Authorization header">>
NotAuthorized == "Not authorized"

\* ------------------------------------------------------- library functions

\* unicode simple case folding, on the letters the model's headers use
Lower(c) ==
    CASE c = "B" -> "b"
      [] c = "E" -> "e"
      [] c = "A" -> "a"
      [] c = "R" -> "r"
      [] c = "S" -> "s"
      [] c = "I" -> "i"
      [] c = "C" -> "c"
      [] OTHER -> c

\* strings.EqualFold(s, t)
EqualFold(s, t) ==
    /\ Len(s) = Len(t)
    /\ \A i \in 1..Len(s) : Lower(s[i]) = Lower(t[i])

\* strings.HasPrefix(s, sep)
HasPrefix(s, sep) ==
    /\ Len(s) >= Len(sep)
    /\ SubSeq(s, 1, Len(sep)) = sep

\* strings.Index(s, sep) as a 1-based position, 0 when sep does not occur
Index(s, sep) ==
    LET hits == {i \in 1..Len(s) : HasPrefix(SubSeq(s, i, Len(s)), sep)}
    IN  IF hits = {} THEN 0 ELSE CHOOSE i \in hits : \A j \in hits : i <= j

\* strings.Split(s, sep) for a non-empty sep: the substrings between the
\* occurrences of sep; a string without sep (the empty string too) is the
\* one-element list of itself.
RECURSIVE Split(_, _)
Split(s, sep) ==
    LET i == Index(s, sep)
    IN  IF i = 0
        THEN <<s>>
        ELSE <<SubSeq(s, 1, i - 1)>> \o Split(SubSeq(s, i + Len(sep), Len(s)), sep)

\* ------------------------------------------------------------------ inputs

\* Values of the Authorization header: absent, one part, well-formed in
\* three spellings of the scheme, another scheme, the scheme alone, the
\* scheme and a space, three parts, two spaces.
AuthorizationHeaders ==
    { <<>>,
      xyz,
      Bearer \o SP \o xyz,
      <<"b", "e", "a", "r", "e", "r">> \o SP \o xyz,
      <<"B", "E", "A", "R", "E", "R">> \o SP \o xyz,
      <<"B", "a", "s", "i", "c">> \o SP \o xyz,
      Bearer,
      Bearer \o SP,
      Bearer \o SP \o xyz \o SP \o abc,
      Bearer \o SP \o SP \o xyz }

\* Values of the X-jwt-assertion header.
AssertionHeaders == { <<>>, <<"j", "w", "t">> }

NoSession == [ok |-> FALSE, user |-> ""]
Sessions == { NoSession, [ok |-> TRUE, user |-> "jdoe"] }

Modes == {"machine", "user"}

Requests ==
    [mode : Modes, authorization : AuthorizationHeaders,
     assertion : AssertionHeaders, session : Sessions]

\* Values of LOCAL_ENVIRONMENT and GEN_CONTROL_GROUPS in the process
\* environment (an unset variable reads as the empty string).
LocalEnvironments == { <<>>, <<"1">> }
ControlGroupSettings ==
    { <<>>,
      staff,
      admins \o <<",", " ">> \o staff,
      admins \o <<",">> \o staff }

Environments ==
    [LOCAL_ENVIRONMENT : LocalEnvironments,
     GEN_CONTROL_GROUPS : ControlGroupSettings]

\* What bearertoken.CheckToken and wso2jwt.Validate may return.
Errors(texts) == {NoError} \cup {<<t>> : t \in texts}
BearerAnswers == [valid : BOOLEAN, err : Errors({"token expired"})]
WSO2Answers == [valid : BOOLEAN, err : Errors({"bad signature"})]

\* What ad.GetGroupsForUser may return: a list of at most MaxGroups group
\* identifiers, and an error or nil.
GroupNames == { <<>>, admins, staff, alumni, students }
GroupLists == UNION {[1..n -> GroupNames] : n \in 0..MaxGroups}
DirectoryAnswers == [groups : GroupLists, err : Errors({"ldap unavailable"})]

\* ---------------------------------------------------------------- decisions

Result(p, e) == [passed |-> p, err |-> e]

\* checkLocal: authorized iff LOCAL_ENVIRONMENT is non-empty
checkLocal(local) ==
    IF Len(local) > 0 THEN Result(TRUE, NoError) ELSE Result(FALSE, NoError)

\* Found without the length test: the verifier branch is always entered.
Found_Always(token) == TRUE

\* checkBearerToken and checkWSO2: "Proceed if we found a token"
Found(token) == Len(token) > 0

\* BadHeader with "fewer than two parts" for "other than two parts".
BadHeader_AtLeastTwo(parts) ==
    Len(parts) < 2 \/ ~EqualFold(parts[1], Bearer)

\* checkBearerToken, the test on the split header
BadHeader(parts) ==
    Len(parts) # 2 \/ ~EqualFold(parts[1], Bearer)

\* Verdict taking a verifier error for an invalid token.
Verdict_Swallow(ans) ==
    IF ans.err # NoError THEN Result(FALSE, NoError)
    ELSE IF ans.valid THEN Result(TRUE, NoError)
    ELSE Result(FALSE, NoError)

\* Verdict failing open: a verifier error counts as a valid token.
Verdict_FailOpen(ans) ==
    IF ans.err # NoError THEN Result(TRUE, NoError)
    ELSE IF ans.valid THEN Result(TRUE, NoError)
    ELSE Result(FALSE, NoError)

\* Verdict reporting an invalid token as an error.
Verdict_DenialIsError(ans) ==
    IF ans.err # NoError THEN Result(FALSE, ans.err)
    ELSE IF ans.valid THEN Result(TRUE, NoError)
    ELSE Result(FALSE, <<"invalid token">>)

\* checkBearerToken and checkWSO2, what is made of the verifier's answer
Verdict(ans) ==
    IF ans.err # NoError THEN Result(FALSE, ans.err)
    ELSE IF ans.valid THEN Result(TRUE, NoError)
    ELSE Result(FALSE, NoError)

\* Returns without the "if passed" return: only an error ends the cascade.
Returns_ErrorOnly(res) == res.err # NoError

\* Returns without the "if err != nil" return: only a pass ends the cascade.
Returns_PassedOnly(res) == res.passed

\* MachineChecks: after a check, return its result or go on to the next
Returns(res) == res.err # NoError \/ res.passed

\* GroupLoop returning false after the first control group's inner loop.
RECURSIVE GroupLoop_FirstOnly(_, _, _, _)
GroupLoop_FirstOnly(control, ADGroups, i, j) ==
    IF i > Len(control) THEN FALSE
    ELSE IF j > Len(ADGroups) THEN FALSE
    ELSE IF control[i] = ADGroups[j] THEN TRUE
    ELSE GroupLoop_FirstOnly(control, ADGroups, i, j + 1)

\* PassGatekeeper, the nested loops over control[i] and ADGroups[j]
RECURSIVE GroupLoop(_, _, _, _)
GroupLoop(control, ADGroups, i, j) ==
    IF i > Len(control) THEN FALSE
    ELSE IF j > Len(ADGroups) THEN GroupLoop(control, ADGroups, i + 1, 1)
    ELSE IF control[i] = ADGroups[j] THEN TRUE
    ELSE GroupLoop(control, ADGroups, i, j + 1)

\* PassGatekeeper without the return on a lookup error.
PassGatekeeper_FailOpen(ans, control) ==
    GroupLoop(control, ans.groups, 1, 1)

\* PassGatekeeper with the error test inverted (err == nil for err != nil).
PassGatekeeper_InvertedErr(ans, control) ==
    IF ans.err = NoError THEN FALSE
    ELSE GroupLoop(control, ans.groups, 1, 1)

\* PassGatekeeper, given what ad.GetGroupsForUser returned
PassGatekeeper(ans, control) ==
    IF ans.err # NoError THEN FALSE
    ELSE GroupLoop(control, ans.groups, 1, 1)

\* RunsUserChecks without the "if !passed" test.
RunsUserChecks_Always(passed) == TRUE

\* AuthenticateUser: the user checks run only when the machine checks did
\* not pass
RunsUserChecks(passed) == ~passed

\* NeedsLogin with the negation lost.
NeedsLogin_Inverted(session) == session.ok

\* AuthenticateUser: without a CAS session the caller is sent to the login
NeedsLogin(session) == ~session.ok

Handler == [kind |-> "handler", message |-> ""]
Redirect == [kind |-> "redirect", message |-> ""]
BadRequest(text) == [kind |-> "400", message |-> text]

\* Outcome without the "if passed" test before next.ServeHTTP.
Outcome_NoDenial(passed, err) ==
    IF err # NoError THEN BadRequest(err[1]) ELSE Handler

\* Authenticate: what the middleware does with the result of MachineChecks
Outcome(passed, err) ==
    IF err # NoError THEN BadRequest(err[1])
    ELSE IF passed THEN Handler
    ELSE BadRequest(NotAuthorized)

\* -------------------------------------------------------------------- state

\* The handling contexts the server runs requests in.
Workers == {1}

\* A context with no request: every local of the handler at its zero value.
\* localSeen and control hold what the request read from the environment,
\* bearer, jwt and dir the calls it made with their answers, out what it
\* did to the response and the downstream handler, in order; verdicts holds
\* what earlier calls of MachineChecks on the same request returned.
Idle ==
    [pc |-> "idle", mode |-> "machine", authorization |-> <<>>,
     assertion |-> <<>>, session |-> NoSession,
     passed |-> FALSE, err |-> NoError, localSeen |-> <<>>,
     bearer |-> <<>>, jwt |-> <<>>, sessionChecks |-> 0,
     dir |-> <<>>, control |-> <<>>, access |-> FALSE, out |-> <<>>,
     verdicts |-> <<>>]

\* An environment the process may start with: no local flag, the allow-list
\* admins, staff.
StartEnvironment ==
    [LOCAL_ENVIRONMENT |-> <<>>,
     GEN_CONTROL_GROUPS |-> admins \o <<",", " ">> \o staff]

Init ==
    /\ env \in Environments
    /\ req = [r \in Workers |-> Idle]

\* ------------------------------------------------------------------ actions

\* The host process changes its environment.
Setenv ==
    /\ \E e \in Environments : e # env /\ env' = e
    /\ UNCHANGED req

\* The server hands a request to one of the two middlewares.
Receive(r) ==
    /\ req[r].pc = "idle"
    /\ \E q \in Requests :
         req' = [req EXCEPT ![r] =
                   [Idle EXCEPT !.pc = "checkLocal", !.mode = q.mode,
                                !.authorization = q.authorization,
                                !.assertion = q.assertion,
                                !.session = q.session]]
    /\ UNCHANGED env

\* CheckLocal deciding on the flag as it was at process start.
CheckLocal_AtStart(r) ==
    /\ req[r].pc = "checkLocal"
    /\ LET res == checkLocal(StartEnvironment.LOCAL_ENVIRONMENT)
       IN  req' = [req EXCEPT ![r] =
                     [@ EXCEPT !.localSeen = <<StartEnvironment.LOCAL_ENVIRONMENT>>,
                               !.passed = res.passed, !.err = res.err,
                               !.pc = IF Returns(res) THEN "checked"
                                      ELSE "checkBearerToken"]]
    /\ UNCHANGED env

\* MachineChecks, lines 77-83
CheckLocal(r) ==
    /\ req[r].pc = "checkLocal"
    /\ LET res == checkLocal(env.LOCAL_ENVIRONMENT)
       IN  req' = [req EXCEPT ![r] =
                     [@ EXCEPT !.localSeen = <<env.LOCAL_ENVIRONMENT>>,
                               !.passed = res.passed, !.err = res.err,
                               !.pc = IF Returns(res) THEN "checked"
                                      ELSE "checkBearerToken"]]
    /\ UNCHANGED env

\* CheckBearerToken removing the Authorization header once it has read it.
CheckBearerToken_Consumes(r) ==
    /\ req[r].pc = "checkBearerToken"
    /\ LET token == req[r].authorization
           parts == Split(token, SP)
           Report(res, calls) ==
               req' = [req EXCEPT ![r] =
                         [@ EXCEPT !.authorization = <<>>,
                                   !.bearer = @ \o calls,
                                   !.passed = res.passed, !.err = res.err,
                                   !.pc = IF Returns(res) THEN "checked"
                                          ELSE "checkWSO2"]]
       IN  IF Found(token)
           THEN IF BadHeader(parts)
                THEN Report(Result(FALSE, BadAuthorizationHeader), <<>>)
                ELSE \E ans \in BearerAnswers :
                       Report(Verdict(ans),
                              <<[token |-> parts[2], valid |-> ans.valid,
                                 err |-> ans.err]>>)
           ELSE Report(Result(FALSE, NoError), <<>>)
    /\ UNCHANGED env

\* MachineChecks, lines 85-91
CheckBearerToken(r) ==
    /\ req[r].pc = "checkBearerToken"
    /\ LET token == req[r].authorization
           parts == Split(token, SP)
           Report(res, calls) ==
               req' = [req EXCEPT ![r] =
                         [@ EXCEPT !.bearer = @ \o calls,
                                   !.passed = res.passed, !.err = res.err,
                                   !.pc = IF Returns(res) THEN "checked"
                                          ELSE "checkWSO2"]]
       IN  IF Found(token)
           THEN IF BadHeader(parts)
                THEN Report(Result(FALSE, BadAuthorizationHeader), <<>>)
                ELSE \E ans \in BearerAnswers :
                       Report(Verdict(ans),
                              <<[token |-> parts[2], valid |-> ans.valid,
                                 err |-> ans.err]>>)
           ELSE Report(Result(FALSE, NoError), <<>>)
    /\ UNCHANGED env

\* CheckWSO2 calling the verifier again after an error.
CheckWSO2_Retry(r) ==
    /\ req[r].pc = "checkWSO2"
    /\ LET token == req[r].assertion
           Report(res, calls) ==
               req' = [req EXCEPT ![r] =
                         [@ EXCEPT !.jwt = @ \o calls,
                                   !.passed = res.passed, !.err = res.err,
                                   !.pc = IF res.err # NoError
                                          THEN "checkWSO2" ELSE "checked"]]
       IN  IF Found(token)
           THEN \E ans \in WSO2Answers :
                  Report(Verdict(ans),
                         <<[token |-> token, valid |-> ans.valid,
                            err |-> ans.err]>>)
           ELSE Report(Result(FALSE, NoError), <<>>)
    /\ UNCHANGED env

\* MachineChecks, lines 93-101
CheckWSO2(r) ==
    /\ req[r].pc = "checkWSO2"
    /\ LET token == req[r].assertion
           Report(res, calls) ==
               req' = [req EXCEPT ![r] =
                         [@ EXCEPT !.jwt = @ \o calls,
                                   !.passed = res.passed, !.err = res.err,
                                   !.pc = "checked"]]
       IN  IF Found(token)
           THEN \E ans \in WSO2Answers :
                  Report(Verdict(ans),
                         <<[token |-> token, valid |-> ans.valid,
                            err |-> ans.err]>>)
           ELSE Report(Result(FALSE, NoError), <<>>)
    /\ UNCHANGED env

\* Authenticate, lines 23-34
Authenticate(r) ==
    /\ req[r].pc = "checked"
    /\ req[r].mode = "machine"
    /\ LET did == Outcome(req[r].passed, req[r].err)
       IN  req' = [req EXCEPT ![r] =
                     [@ EXCEPT !.out = Append(@, did), !.pc = "done"]]
    /\ UNCHANGED env

\* AuthenticateUser with the result of MachineChecks kept in variables that
\* all requests share: it may see the result of another request.
AuthenticateUser_Shared(r) ==
    /\ req[r].pc = "checked"
    /\ req[r].mode = "user"
    /\ \E w \in DOMAIN req :
         /\ req[w].pc \in {"checked", "userChecks", "isAuthenticated",
                           "passGatekeeper", "done"}
         /\ req' = [req EXCEPT ![r] =
                      IF req[w].err # NoError
                      THEN [@ EXCEPT !.out = Append(@, BadRequest(req[w].err[1])),
                                     !.pc = "done"]
                      ELSE IF req[w].passed
                      THEN [@ EXCEPT !.out = Append(@, Handler),
                                     !.pc = "userChecks"]
                      ELSE [@ EXCEPT !.pc = "userChecks"]]
    /\ UNCHANGED env

\* AuthenticateUser, lines 47-55
AuthenticateUser(r) ==
    /\ req[r].pc = "checked"
    /\ req[r].mode = "user"
    /\ req' = [req EXCEPT ![r] =
                 IF req[r].err # NoError
                 THEN [@ EXCEPT !.out = Append(@, BadRequest(req[r].err[1])),
                                !.pc = "done"]
                 ELSE IF req[r].passed
                 THEN [@ EXCEPT !.out = Append(@, Handler),
                                !.pc = "userChecks"]
                 ELSE [@ EXCEPT !.pc = "userChecks"]]
    /\ UNCHANGED env

\* AuthenticateUser, line 57
UserChecks(r) ==
    /\ req[r].pc = "userChecks"
    /\ req' = [req EXCEPT ![r] =
                 [@ EXCEPT !.pc = IF RunsUserChecks(req[r].passed)
                                  THEN "isAuthenticated" ELSE "done"]]
    /\ UNCHANGED env

\* AuthenticateUser, lines 58-61
IsAuthenticated(r) ==
    /\ req[r].pc = "isAuthenticated"
    /\ req' = [req EXCEPT ![r] =
                 IF NeedsLogin(req[r].session)
                 THEN [@ EXCEPT !.sessionChecks = @ + 1,
                                !.out = Append(@, Redirect), !.pc = "done"]
                 ELSE [@ EXCEPT !.sessionChecks = @ + 1,
                                !.pc = "passGatekeeper"]]
    /\ UNCHANGED env

\* AuthenticateUser, lines 63-70
Gatekeeper(r) ==
    /\ req[r].pc = "passGatekeeper"
    /\ LET control == Split(env.GEN_CONTROL_GROUPS, <<",", " ">>)
       IN  \E ans \in DirectoryAnswers :
             LET access == PassGatekeeper(ans, control)
                 did == IF access THEN <<Handler>> ELSE <<>>
                 didNot == IF ~access THEN <<BadRequest(NotAuthorized)>>
                           ELSE <<>>
             IN  req' = [req EXCEPT ![r] =
                           [@ EXCEPT !.control = <<control>>,
                                     !.dir = Append(@,
                                               [user |-> req[r].session.user,
                                                groups |-> ans.groups,
                                                err |-> ans.err]),
                                     !.access = access,
                                     !.out = @ \o did \o didNot,
                                     !.pc = "done"]]
    /\ UNCHANGED env

\* The handler function returns; the context is free for the next request.
Return(r) ==
    /\ req[r].pc = "done"
    /\ req' = [req EXCEPT ![r] = Idle]
    /\ UNCHANGED env

Next ==
    \/ Setenv
    \/ \E r \in Workers :
         \/ Receive(r)
         \/ CheckLocal(r)
         \/ CheckBearerToken(r)
         \/ CheckWSO2(r)
         \/ Authenticate(r)
         \/ AuthenticateUser(r)
         \/ UserChecks(r)
         \/ IsAuthenticated(r)
         \/ Gatekeeper(r)
         \/ Return(r)

Spec == Init /\ [][Next]_vars

\* The same program started in StartEnvironment.
InitFromStart ==
    /\ env = StartEnvironment
    /\ req = [r \in Workers |-> Idle]

SpecFromStart == InitFromStart /\ [][Next]_vars

\* MachineChecks is called a second time on the request it has just
\* returned for; the first result is kept for comparison.
Again(r) ==
    /\ req[r].pc = "checked"
    /\ req[r].verdicts = <<>>
    /\ req' = [req EXCEPT ![r] =
                 [@ EXCEPT !.verdicts = Append(@, Result(req[r].passed,
                                                         req[r].err)),
                           !.passed = FALSE, !.err = NoError,
                           !.pc = "checkLocal"]]
    /\ UNCHANGED env

\* The verifiers answer a repeated call as they answered the first one.
SameAnswers(r) ==
    /\ \A i \in 1..Len(req[r].bearer) :
         /\ req[r].bearer[i].valid = req[r].bearer[1].valid
         /\ req[r].bearer[i].err = req[r].bearer[1].err
    /\ \A i \in 1..Len(req[r].jwt) :
         /\ req[r].jwt[i].valid = req[r].jwt[1].valid
         /\ req[r].jwt[i].err = req[r].jwt[1].err

\* MachineChecks called twice on one request, in an unchanged environment.
NextTwice ==
    \E r \in Workers :
        \/ Receive(r)
        \/ CheckLocal(r)
        \/ CheckBearerToken(r) /\ SameAnswers(r)'
        \/ CheckWSO2(r) /\ SameAnswers(r)'
        \/ Again(r)

SpecTwice == Init /\ [][NextTwice]_vars

\* Two requests handled at once, each in its own context.
Contexts == {1, 2}

InitConcurrent ==
    /\ env \in Environments
    /\ req = [r \in Contexts |-> Idle]

\* The requests and directory answers of the concurrent runs.
Light(r) ==
    /\ req[r].authorization \in {<<>>, xyz, Bearer \o SP \o xyz}
    /\ \A i \in 1..Len(req[r].dir) :
         req[r].dir[i].groups \in {<<>>, <<staff>>, <<alumni>>}

\* The steps of the two requests interleave in any order; the environment
\* is only read.
NextConcurrent ==
    \E r \in Contexts :
        \/ Receive(r) /\ Light(r)'
        \/ CheckLocal(r)
        \/ CheckBearerToken(r)
        \/ CheckWSO2(r)
        \/ Authenticate(r)
        \/ AuthenticateUser(r)
        \/ UserChecks(r)
        \/ IsAuthenticated(r)
        \/ Gatekeeper(r) /\ Light(r)'

SpecConcurrent == InitConcurrent /\ [][NextConcurrent]_vars

\* ------------------------------------------------------------------ claims

Range(s) == {s[i] : i \in 1..Len(s)}

\* what request r did to the response and the downstream handler
Did(r, kind) == \E i \in 1..Len(req[r].out) : req[r].out[i].kind = kind

\* what checkLocal read for request r
BypassSet(r) == req[r].localSeen # <<>> /\ Len(req[r].localSeen[1]) > 0
BypassNotSet(r) == req[r].localSeen # <<>> /\ Len(req[r].localSeen[1]) = 0

\* MachineChecks has returned for request r; passed and err are its result
Returned(r) ==
    req[r].pc \in {"checked", "userChecks", "isAuthenticated",
                   "passGatekeeper", "done"}

BearerSaidTrue(r) == \E i \in 1..Len(req[r].bearer) : req[r].bearer[i].valid
WSO2SaidTrue(r) == \E i \in 1..Len(req[r].jwt) : req[r].jwt[i].valid

\* the directory resolved the session user's groups and one of them is in
\* the allow-list the request read
GroupsMatch(r) ==
    /\ req[r].dir # <<>>
    /\ req[r].control # <<>>
    /\ req[r].dir[1].err = NoError
    /\ Range(req[r].dir[1].groups) \cap Range(req[r].control[1]) # {}

\* The header is exactly two space-separated parts, the first one "Bearer"
\* in any letter case: one space, at position 7, after the six letters.
WellFormed(h) ==
    /\ Len(h) >= 7
    /\ {i \in 1..Len(h) : h[i] = " "} = {7}
    /\ \A k \in 1..6 : Lower(h[k]) = Lower(Bearer[k])

Malformed(h) == Len(h) > 0 /\ ~WellFormed(h)

\* C1: in both modes the downstream handler is invoked only if the local
\* flag was set, the bearer verifier returned true, the JWT verifier returned
\* true, or (user mode) a session is established and the resolved groups
\* share an element with the allow-list.
C1_HandlerOnlyIfAuthorized ==
    \A r \in Workers :
        Did(r, "handler") =>
            \/ BypassSet(r)
            \/ BearerSaidTrue(r)
            \/ WSO2SaidTrue(r)
            \/ /\ req[r].mode = "user"
               /\ req[r].session.ok
               /\ GroupsMatch(r)

\* a request let through by the group check alone
C1_Witness ==
    \E r \in Workers :
        /\ Did(r, "handler")
        /\ req[r].mode = "user"
        /\ ~BypassSet(r) /\ ~BearerSaidTrue(r) /\ ~WSO2SaidTrue(r)
        /\ GroupsMatch(r)

\* C2: when the local flag is set MachineChecks returns (true, nil) whatever
\* the headers are, and neither verifier is consulted.
C2_BypassAuthorizes ==
    \A r \in Workers :
        BypassSet(r) =>
            /\ Returned(r)
            /\ req[r].passed /\ req[r].err = NoError
            /\ req[r].bearer = <<>> /\ req[r].jwt = <<>>

\* the flag set on a request with a malformed Authorization header and an
\* assertion header
C2_Witness ==
    \E r \in Workers :
        /\ BypassSet(r) /\ Returned(r)
        /\ Malformed(req[r].authorization)
        /\ req[r].assertion # <<>>

\* C3: without the bypass, a non-empty Authorization header that is not
\* "Bearer <token>" makes MachineChecks return an error, never (false, nil),
\* and no verifier is consulted, even with an assertion header present.
C3_MalformedIsError ==
    \A r \in Workers :
        (BypassNotSet(r) /\ Malformed(req[r].authorization)) =>
            /\ req[r].pc # "checkWSO2"
            /\ req[r].bearer = <<>> /\ req[r].jwt = <<>>
            /\ Returned(r) =>
                 /\ req[r].err = BadAuthorizationHeader
                 /\ ~req[r].passed

\* MachineChecks has returned on a header of three parts, with an assertion
\* header present
C3_Witness ==
    \E r \in Workers :
        /\ BypassNotSet(r) /\ Returned(r)
        /\ req[r].authorization = Bearer \o SP \o xyz \o SP \o abc
        /\ req[r].assertion # <<>>
        /\ req[r].err # NoError

\* C4: with neither header and no bypass MachineChecks returns (false, nil),
\* never an error, and consults no verifier.
C4_NoCredentialsIsDenial ==
    \A r \in Workers :
        (/\ BypassNotSet(r)
         /\ req[r].authorization = <<>>
         /\ req[r].assertion = <<>>) =>
            /\ req[r].err = NoError
            /\ ~req[r].passed
            /\ req[r].bearer = <<>> /\ req[r].jwt = <<>>

\* MachineChecks has returned on a request without the two headers
C4_Witness ==
    \E r \in Workers :
        /\ BypassNotSet(r) /\ Returned(r)
        /\ req[r].authorization = <<>>
        /\ req[r].assertion = <<>>
        /\ ~req[r].passed

\* C5: PassGatekeeper returns true iff the directory lookup succeeded and
\* the resolved groups and the allow-list share an element; it returns
\* false when the lookup failed, whatever the allow-list.
C5_GatekeeperIsIntersection ==
    \A r \in Workers :
        req[r].dir # <<>> => (req[r].access <=> GroupsMatch(r))

\* PassGatekeeper said yes on a match of the second control group with the
\* second directory group
C5_Witness ==
    \E r \in Workers :
        /\ req[r].dir # <<>>
        /\ req[r].access
        /\ req[r].control = << <<admins, staff>> >>
        /\ req[r].dir[1].groups = <<alumni, staff>>

\* C6: in either mode a request has exactly one terminal outcome and at most
\* one response: handler, 400 and redirect exclude one another, and the
\* handler is invoked at most once.
C6_OneOutcome ==
    \A r \in Workers :
        /\ Len(req[r].out) <= 1
        /\ req[r].pc = "done" => Len(req[r].out) = 1

\* AuthenticateUser has finished a request that passed the machine checks
C6_Witness ==
    \E r \in Workers :
        /\ req[r].pc = "done"
        /\ req[r].mode = "user"
        /\ req[r].passed
        /\ req[r].session.ok
        /\ req[r].out = <<Handler>>

\* the error MachineChecks has to return for request r, from what the
\* verifiers answered and from the shape of the Authorization header
ErrorDue(r) ==
    IF req[r].jwt # <<>> /\ req[r].jwt[1].err # NoError
    THEN req[r].jwt[1].err
    ELSE IF req[r].bearer # <<>> /\ req[r].bearer[1].err # NoError
    THEN req[r].bearer[1].err
    ELSE IF BypassNotSet(r) /\ Malformed(req[r].authorization)
    THEN BadAuthorizationHeader
    ELSE NoError

\* C7: in either mode, when MachineChecks returns an error (malformed
\* header, bearer or JWT verifier failure) the request ends with a 400
\* carrying that error's text; the handler is not invoked, and in user mode
\* neither the session gate nor the group gatekeeper is consulted and no
\* redirect is issued.
C7_ErrorIs400 ==
    \A r \in Workers :
        Returned(r) =>
            /\ req[r].err = ErrorDue(r)
            /\ req[r].err # NoError =>
                 /\ req[r].pc \in {"checked", "done"}
                 /\ req[r].sessionChecks = 0 /\ req[r].dir = <<>>
                 /\ ~Did(r, "handler") /\ ~Did(r, "redirect")
                 /\ req[r].pc = "done" =>
                      req[r].out = <<BadRequest(req[r].err[1])>>

\* a JWT verifier failure answered with a 400 in user mode, for a caller
\* with a session
C7_Witness ==
    \E r \in Workers :
        /\ req[r].pc = "done"
        /\ req[r].mode = "user"
        /\ req[r].session.ok
        /\ req[r].jwt # <<>>
        /\ req[r].jwt[1].err = <<"bad signature">>
        /\ req[r].out = <<BadRequest("bad signature")>>

\* C8: in user mode, when MachineChecks returns (false, nil) and there is no
\* session, the middleware redirects to the login and never calls the group
\* gatekeeper, never invokes the handler and never writes a 400.
C8_NoSessionRedirects ==
    \A r \in Workers :
        (/\ req[r].mode = "user"
         /\ Returned(r)
         /\ ~req[r].passed /\ req[r].err = NoError
         /\ ~req[r].session.ok) =>
            /\ req[r].pc # "passGatekeeper"
            /\ req[r].dir = <<>>
            /\ ~Did(r, "handler") /\ ~Did(r, "400")
            /\ req[r].pc = "done" => req[r].out = <<Redirect>>

\* a request without credentials and without session, redirected
C8_Witness ==
    \E r \in Workers :
        /\ req[r].pc = "done"
        /\ req[r].mode = "user"
        /\ ~req[r].passed /\ req[r].err = NoError
        /\ ~req[r].session.ok
        /\ req[r].out = <<Redirect>>

\* C9: in machine-only mode a (false, nil) from MachineChecks ends with 400
\* "Not authorized", and no execution consults the session gate, redirects
\* or looks up the directory.
C9_MachineModeNoEscalation ==
    \A r \in Workers :
        req[r].mode = "machine" =>
            /\ req[r].pc \notin {"userChecks", "isAuthenticated",
                                 "passGatekeeper"}
            /\ req[r].sessionChecks = 0 /\ req[r].dir = <<>>
            /\ ~Did(r, "redirect")
            /\ (/\ req[r].pc = "done"
                /\ ~req[r].passed /\ req[r].err = NoError) =>
                 req[r].out = <<BadRequest(NotAuthorized)>>

\* Authenticate has denied a caller that has a session
C9_Witness ==
    \E r \in Workers :
        /\ req[r].pc = "done"
        /\ req[r].mode = "machine"
        /\ ~req[r].passed /\ req[r].err = NoError
        /\ req[r].session.ok
        /\ req[r].out = <<BadRequest(NotAuthorized)>>

\* C10: in user mode, when MachineChecks returns (false, nil) and a session
\* is established, the handler is invoked iff the session user's resolved
\* groups intersect the allow-list; otherwise the request ends with 400
\* "Not authorized".
C10_GroupGateDecides ==
    \A r \in Workers :
        (/\ req[r].mode = "user"
         /\ req[r].pc = "done"
         /\ ~req[r].passed /\ req[r].err = NoError
         /\ req[r].session.ok) =>
            /\ Len(req[r].dir) = 1
            /\ req[r].dir[1].user = req[r].session.user
            /\ GroupsMatch(r) => req[r].out = <<Handler>>
            /\ ~GroupsMatch(r) => req[r].out = <<BadRequest(NotAuthorized)>>

\* allow-list admins, staff and directory staff, alumni for jdoe: the
\* handler is reached
C10_Witness ==
    \E r \in Workers :
        /\ req[r].pc = "done"
        /\ req[r].mode = "user"
        /\ ~req[r].passed /\ req[r].err = NoError
        /\ req[r].session = [ok |-> TRUE, user |-> "jdoe"]
        /\ req[r].control = << <<admins, staff>> >>
        /\ req[r].dir[1].groups = <<staff, alumni>>
        /\ req[r].dir[1].err = NoError
        /\ req[r].out = <<Handler>>

\* C11: in user mode, when the group gate is reached and the directory
\* lookup fails, the request ends with 400 "Not authorized": the lookup's
\* error text is never the response message and the handler is never
\* invoked, for every allow-list.
C11_LookupFailureIsDenial ==
    \A r \in Workers :
        (req[r].dir # <<>> /\ req[r].dir[1].err # NoError) =>
            /\ req[r].pc = "done"
            /\ ~req[r].access
            /\ req[r].out = <<BadRequest(NotAuthorized)>>
            /\ \A i \in 1..Len(req[r].out) :
                 req[r].out[i].message # req[r].dir[1].err[1]

\* the lookup failed with a group list that matches the allow-list
C11_Witness ==
    \E r \in Workers :
        /\ req[r].pc = "done"
        /\ req[r].mode = "user"
        /\ req[r].dir # <<>>
        /\ req[r].dir[1].err = <<"ldap unavailable">>
        /\ req[r].dir[1].groups = <<staff>>
        /\ req[r].control = << <<admins, staff>> >>
        /\ req[r].out = <<BadRequest(NotAuthorized)>>

\* C12 as claimed: the configuration is read once and immutable, so the flag
\* and the allow-list a request is decided with are those of process start,
\* whatever happened to the environment since.
C12_ReadOnceAtStart ==
    \A r \in Workers :
        /\ req[r].localSeen # <<>> =>
             req[r].localSeen[1] = StartEnvironment.LOCAL_ENVIRONMENT
        /\ req[r].control # <<>> =>
             req[r].control[1] = <<admins, staff>>

\* C12 as amended: each request is decided with the values the process
\* environment holds when the request reads them: LOCAL_ENVIRONMENT when its
\* checkLocal runs, GEN_CONTROL_GROUPS when its group gate runs.
C12_ReadsEnvironmentPerRequest ==
    [][\A r \in Workers :
         /\ (req[r].pc = "checkLocal" /\ req'[r].pc # "checkLocal") =>
              req'[r].passed = (Len(env.LOCAL_ENVIRONMENT) > 0)
         /\ (req[r].pc = "passGatekeeper" /\ req'[r].pc # "passGatekeeper") =>
              req'[r].access =
                  (/\ req'[r].dir[1].err = NoError
                   /\ Range(req'[r].dir[1].groups)
                        \cap Range(Split(env.GEN_CONTROL_GROUPS, <<",", " ">>))
                      # {})]_vars

\* a request without credentials reaches the handler because the local flag
\* was set after the process started without it
C12_Witness ==
    \E r \in Workers :
        /\ req[r].pc = "done"
        /\ req[r].authorization = <<>> /\ req[r].assertion = <<>>
        /\ req[r].mode = "machine"
        /\ req[r].localSeen # <<>>
        /\ req[r].localSeen[1] # StartEnvironment.LOCAL_ENVIRONMENT
        /\ req[r].out = <<Handler>>

\* C13: MachineChecks called twice on the same request, with the same
\* configuration and the same verifier answers, returns the same
\* (bool, error) both times, and the request's headers are as they were.
C13_Idempotent ==
    \A r \in Workers :
        (req[r].pc = "checked" /\ req[r].verdicts # <<>>) =>
            /\ Result(req[r].passed, req[r].err) = req[r].verdicts[1]
            /\ \A i \in 1..Len(req[r].bearer) :
                 req[r].bearer[i].token = req[r].bearer[1].token
            /\ \A i \in 1..Len(req[r].jwt) :
                 req[r].jwt[i].token = req[r].jwt[1].token

\* the second call has returned after consulting both verifiers again
C13_Witness ==
    \E r \in Workers :
        /\ req[r].pc = "checked"
        /\ req[r].verdicts # <<>>
        /\ Len(req[r].bearer) = 2
        /\ Len(req[r].jwt) = 2
        /\ req[r].passed

\* the verifier's answer in a call record counts as Authorized
Accepted(call) == call.err = NoError /\ call.valid

\* The outcome of a request handled alone, from its own headers and
\* session, the answers given to it and the configuration e.
Alone(q, e) ==
    IF Len(e.LOCAL_ENVIRONMENT) > 0 THEN Handler
    ELSE IF Malformed(q.authorization)
    THEN BadRequest("Bad Authorization header")
    ELSE IF q.bearer # <<>> /\ q.bearer[1].err # NoError
    THEN BadRequest(q.bearer[1].err[1])
    ELSE IF q.bearer # <<>> /\ Accepted(q.bearer[1]) THEN Handler
    ELSE IF q.jwt # <<>> /\ q.jwt[1].err # NoError
    THEN BadRequest(q.jwt[1].err[1])
    ELSE IF q.jwt # <<>> /\ Accepted(q.jwt[1]) THEN Handler
    ELSE IF q.mode = "machine" THEN BadRequest(NotAuthorized)
    ELSE IF ~q.session.ok THEN Redirect
    ELSE IF /\ q.dir # <<>>
            /\ q.dir[1].err = NoError
            /\ Range(q.dir[1].groups)
                 \cap Range(Split(e.GEN_CONTROL_GROUPS, <<",", " ">>)) # {}
    THEN Handler
    ELSE BadRequest(NotAuthorized)

\* C14: concurrent requests do not interact: under every interleaving of
\* the steps of two requests, each request's terminal outcome is the one it
\* gets when handled alone, a function of its own headers, its own session,
\* the shared read-only configuration and the answers given to it.
C14_NoInterference ==
    \A r \in DOMAIN req :
        req[r].pc = "done" => req[r].out = <<Alone(req[r], env)>>

\* two requests finished side by side with different outcomes
C14_Witness ==
    /\ req[1].pc = "done" /\ req[2].pc = "done"
    /\ req[1].mode = "user" /\ req[2].mode = "user"
    /\ req[1].out = <<Handler>>
    /\ req[2].out = <<BadRequest("token expired")>>

\* the verifier's answer in a call record counts as Denied
Refused(call) == call.err = NoError /\ ~call.valid

\* C15: within one MachineChecks run the checks happen in the order local,
\* bearer, JWT, and a later check starts only if every earlier one returned
\* Denied: no bearer call when the local flag is set, no JWT call when the
\* bearer check returned Authorized or Error.
C15_CascadeOrder ==
    \A r \in Workers :
        /\ req[r].pc = "checkLocal" =>
             req[r].bearer = <<>> /\ req[r].jwt = <<>>
        /\ req[r].pc = "checkBearerToken" =>
             req[r].bearer = <<>> /\ req[r].jwt = <<>>
        /\ (req[r].pc = "checkBearerToken" \/ req[r].bearer # <<>>) =>
             BypassNotSet(r)
        /\ (req[r].pc = "checkWSO2" \/ req[r].jwt # <<>>) =>
             /\ BypassNotSet(r)
             /\ ~Malformed(req[r].authorization)
             /\ \A i \in 1..Len(req[r].bearer) : Refused(req[r].bearer[i])

\* the JWT verifier was called after the bearer verifier refused the token
C15_Witness ==
    \E r \in Workers :
        /\ req[r].bearer # <<>>
        /\ Refused(req[r].bearer[1])
        /\ req[r].jwt # <<>>

\* C16: without the bypass, a well-formed Bearer header whose verifier
\* returns (false, nil) is not final: MachineChecks returns (false, nil)
\* when there is no assertion header, and otherwise the JWT verifier's
\* verdict on the X-jwt-assertion header.
C16_BearerDenialFallsThrough ==
    \A r \in Workers :
        (/\ BypassNotSet(r)
         /\ WellFormed(req[r].authorization)
         /\ req[r].bearer # <<>>
         /\ Refused(req[r].bearer[1])
         /\ Returned(r)) =>
            IF req[r].assertion = <<>>
            THEN /\ req[r].jwt = <<>>
                 /\ ~req[r].passed /\ req[r].err = NoError
            ELSE /\ Len(req[r].jwt) = 1
                 /\ req[r].jwt[1].token = req[r].assertion
                 /\ req[r].err = req[r].jwt[1].err
                 /\ req[r].passed = Accepted(req[r].jwt[1])

\* the bearer token was refused and the assertion accepted
C16_Witness ==
    \E r \in Workers :
        /\ Returned(r)
        /\ req[r].authorization = Bearer \o SP \o xyz
        /\ req[r].bearer # <<>>
        /\ Refused(req[r].bearer[1])
        /\ req[r].jwt # <<>>
        /\ Accepted(req[r].jwt[1])
        /\ req[r].passed

\* C17: no check is retried: for one request, in either mode, the bearer
\* verifier, the JWT verifier and the directory lookup are each called at
\* most once, also when they return an error or false.
C17_NoRetry ==
    \A r \in Workers :
        /\ Len(req[r].bearer) <= 1
        /\ Len(req[r].jwt) <= 1
        /\ Len(req[r].dir) <= 1

\* a request finished after two refusals and a failed lookup
C17_Witness ==
    \E r \in Workers :
        /\ req[r].pc = "done"
        /\ Len(req[r].bearer) = 1 /\ Refused(req[r].bearer[1])
        /\ Len(req[r].jwt) = 1 /\ Refused(req[r].jwt[1])
        /\ Len(req[r].dir) = 1 /\ req[r].dir[1].err # NoError

\* C18: whenever the bearer verifier is invoked the credential handed to it
\* is a non-empty string: the header "Bearer " (scheme, space, no token) is
\* malformed and yields an error, never a verifier call with an empty token.
C18_TokenNeverEmpty ==
    \A r \in Workers :
        /\ \A i \in 1..Len(req[r].bearer) : Len(req[r].bearer[i].token) > 0
        /\ (/\ BypassNotSet(r)
            /\ req[r].authorization = Bearer \o SP
            /\ Returned(r)) => req[r].err = BadAuthorizationHeader

\* C19: when GEN_CONTROL_GROUPS is empty or unset the group gate authorizes
\* nobody: in user mode no request reaches the handler through the group
\* check, whatever identifiers the directory returns, the empty string
\* included.
C19_EmptyAllowListAuthorizesNobody ==
    \A r \in Workers :
        (/\ req[r].mode = "user"
         /\ req[r].control = <<Split(<<>>, <<",", " ">>)>>) =>
            /\ ~req[r].access
            /\ ~Did(r, "handler")

====
